---- MODULE Spec2Model ----
(***************************************************************************)
(* safekeeper: a go:generate helper that reads <input>.safekeeper, replaces *)
(* every ENV_<key> token by the value of the environment variable <key>,   *)
(* and writes a generated header plus the rewritten lines to the output.   *)
(* Texts (flags, file contents, values) are strings; files are bytes.      *)
(***************************************************************************)
EXTENDS Integers, Sequences, FiniteSets, TLC

\* Number of times the tool is run in a row on the same flags and environment.
MaxRuns == 2

----------------------------------------------------------------------------
(* String helpers: what the standard library calls used by the code do.    *)

\* strings.Contains(s, sub)
Contains(s, sub) ==
    \E i \in 1..(Len(s) - Len(sub) + 1) : SubSeq(s, i, i + Len(sub) - 1) = sub

\* strings.Index(s, sub) counted from 1; 0 when sub does not occur.
Index(s, sub) ==
    LET at == {i \in 1..(Len(s) - Len(sub) + 1) : SubSeq(s, i, i + Len(sub) - 1) = sub}
    IN  IF at = {} THEN 0 ELSE CHOOSE i \in at : \A j \in at : i <= j

\* The text of s after position i.
From(s, i) == SubSeq(s, i, Len(s))

\* strings.Split(s, sep), sep not empty.  Split of "" yields one empty
\* field, as in Go.
RECURSIVE Split(_, _)
Split(s, sep) ==
    LET i == Index(s, sep)
    IN  IF i = 0 THEN <<s>>
        ELSE <<SubSeq(s, 1, i - 1)>> \o Split(From(s, i + Len(sep)), sep)

\* A replacer that rewrites only the first occurrence of old.
ReplaceFirst(s, old, new) ==
    LET i == Index(s, old)
    IN  IF i = 0 THEN s
        ELSE SubSeq(s, 1, i - 1) \o new \o From(s, i + Len(old))

\* strings.NewReplacer(old, new).Replace(s), old not empty: every
\* non-overlapping occurrence of old, found left to right, becomes new;
\* replaced text is not rescanned.
RECURSIVE Replace(_, _, _)
Replace(s, old, new) ==
    LET i == Index(s, old)
    IN  IF i = 0 THEN s
        ELSE SubSeq(s, 1, i - 1) \o new \o Replace(From(s, i + Len(old)), old, new)

\* fmt.Sprintln without the line terminator.
SprintNoNewline(line) == line

\* fmt.Sprintln(line)
Sprintln(line) == line \o "\n"

\* bufio's dropCR: a trailing carriage return is not part of the line.
dropCR(line) ==
    IF Len(line) > 0 /\ SubSeq(line, Len(line), Len(line)) = "\r"
    THEN SubSeq(line, 1, Len(line) - 1)
    ELSE line

\* The lines bufio.Scanner (ScanLines) yields for a file's bytes: split at
\* "\n", a final unterminated non-empty piece is a line too.
RECURSIVE ScanLines(_)
ScanLines(data) ==
    LET i == Index(data, "\n")
    IN  IF data = "" THEN <<>>
        ELSE IF i = 0 THEN <<dropCR(data)>>
        ELSE <<dropCR(SubSeq(data, 1, i - 1))>> \o ScanLines(From(data, i + 1))

----------------------------------------------------------------------------
(* The inputs of a run.                                                    *)

\* Environment variable names the key lists mention.
Names == {"A", "B", "AB"}

\* --keys flag texts.
KeyFlags == {"A", "A,B", "AB,A"}

\* Values of the environment variables; "" is an unset or empty variable.
ValuesOf(name) ==
    CASE name = "A" -> {"", "1", "ENV_A", "go:generate"}
      [] name = "B" -> {"", "2", "x\ny"}
      [] OTHER -> {"3"}

\* --output flag texts; "" is the flag left unset.
OutFlags == {"", "o", "f.safekeeper"}

\* Positional paths.
PathLists == {<<>>, <<"f">>, <<"f", "g">>}

\* Paths of the file system the run can touch.
Paths == {"f", "f.safekeeper", "o"}

NoFile == [kind |-> "none", data |-> ""]
Dir == [kind |-> "dir", data |-> ""]
File(data) == [kind |-> "file", data |-> data]

\* Template file contents.
Templates ==
    { "x := ENV_A\r\n",
      "ENV_A-ENV_B ENV_A\n",
      "//go:generate safekeeper --keys=AB,A $GOFILE\nENV_AB\n",
      "// safekeeper: see go:generate\n// safekeeper ENV_A",
      "" }

----------------------------------------------------------------------------
VARIABLES
    keyNames,    \* the --keys flag
    output,      \* the --output flag
    paths,       \* the positional paths
    env,         \* the process environment
    fs,          \* the file system: path -> none, directory or file bytes
    pc,          \* position of the run
    status,      \* "running", "ok", or the failure the process died of
    keyValues,   \* loadKeyValues' map
    replacers,   \* setupReplacers' slice of <<old, new>> pairs
    buffer,      \* the bytes.Buffer of run
    fileOpen,    \* the template's os.File is open
    lines,       \* lines the scanner has not delivered yet
    template,    \* bytes of the template as opened by this run
    steps,       \* the calls this run has made, in order
    fsAtStart,   \* the file system when this run started
    written,     \* the bytes this run handed to ioutil.WriteFile
    run,         \* 1 for the first run, 2 for the run after it, ...
    prev         \* the previous run: whether it succeeded, what it read and wrote

vars == <<keyNames, output, paths, env, fs, pc, status, keyValues, replacers,
          buffer, fileOpen, lines, template, steps, fsAtStart, written, run,
          prev>>

flags == <<keyNames, output, paths, env>>

NoKeyValues == [k \in {} |-> ""]

Init ==
    /\ keyNames \in KeyFlags
    /\ output \in OutFlags
    /\ paths \in PathLists
    /\ env \in {e \in [Names -> UNION {ValuesOf(n) : n \in Names}] :
                   \A n \in Names : e[n] \in ValuesOf(n)}
    /\ \E f \in {NoFile, Dir, File("old")} :
       \E t \in {NoFile} \cup {File(d) : d \in Templates} :
          fs = [p \in Paths |->
                  IF p = "f" THEN f ELSE IF p = "f.safekeeper" THEN t ELSE NoFile]
    /\ pc = "loadKeyValues"
    /\ status = "running"
    /\ keyValues = NoKeyValues
    /\ replacers = <<>>
    /\ buffer = ""
    /\ fileOpen = FALSE
    /\ lines = <<>>
    /\ template = ""
    /\ steps = <<>>
    /\ fsAtStart = fs
    /\ written = ""
    /\ run = 1
    /\ prev = [ok |-> FALSE, template |-> "", data |-> ""]

----------------------------------------------------------------------------
(* The functions of safekeeper.go.                                         *)

\* os.Getenv
Getenv(key) == IF key \in DOMAIN env THEN env[key] ELSE ""

\* loadKeyValues that looks only at the first key's value.
loadKeyValuesFirstOnly(keys) ==
    IF Getenv(keys[1]) = ""
    THEN [err |-> TRUE, key |-> keys[1], kv |-> NoKeyValues]
    ELSE [err |-> FALSE, key |-> "",
          kv |-> [k \in {keys[i] : i \in 1..Len(keys)} |-> Getenv(k)]]

\* loadKeyValues: the first key, in the order given, whose value is empty
\* aborts; otherwise the map key -> value.
loadKeyValues(keys) ==
    LET missing == {i \in 1..Len(keys) : Getenv(keys[i]) = ""}
    IN  IF missing # {}
        THEN [err |-> TRUE,
              key |-> keys[CHOOSE i \in missing : \A j \in missing : i <= j],
              kv |-> NoKeyValues]
        ELSE [err |-> FALSE, key |-> "",
              kv |-> [k \in {keys[i] : i \in 1..Len(keys)} |-> Getenv(k)]]

\* isFile that takes anything that exists for a file.
isFileNoDirCheck(name) ==
    IF name \notin DOMAIN fs \/ fs[name].kind = "none" THEN "fatal" ELSE "yes"

\* isFile that ignores the error of os.Stat.
isFileIgnoreErr(name) ==
    IF name \in DOMAIN fs /\ fs[name].kind = "dir" THEN "no" ELSE "yes"

\* isFile: os.Stat failing is fatal; otherwise whether it is no directory.
isFile(name) ==
    IF name \notin DOMAIN fs \/ fs[name].kind = "none" THEN "fatal"
    ELSE IF fs[name].kind = "dir" THEN "no" ELSE "yes"

Warning ==
    "// GENERATED by safekeeper (https://github.com/alexandre-normand/safekeeper, DO NOT EDIT"

\* writeHeader that leaves the --output flag out of the directive.
writeHeaderNoOutput(keys, out) ==
    Sprintln(Warning) \o "//go:generate safekeeper --keys=" \o keys \o " $GOFILE\n"

\* writeHeader: what it appends to the (empty) buffer, from the two flags.
writeHeader(keys, out) ==
    Sprintln(Warning)
      \o "//go:generate safekeeper --keys=" \o keys
      \o (IF out # "" THEN " --output=" \o out ELSE "")
      \o " $GOFILE\n"

\* The directive test on the one text "go:generate safekeeper".
isDirectiveContiguous(line) == Contains(line, "go:generate safekeeper")

\* The test of substituteValues on a scanned line.
isDirective(line) == Contains(line, "go:generate") /\ Contains(line, "safekeeper")

\* The replacer loop with replacers that rewrite one occurrence each.
RECURSIVE applyFirstOnly(_, _)
applyFirstOnly(rs, line) ==
    IF rs = <<>> THEN line
    ELSE applyFirstOnly(Tail(rs), ReplaceFirst(line, Head(rs)[1], Head(rs)[2]))

\* for _, replacer := range replacers { line = replacer.Replace(line) }
RECURSIVE applyReplacers(_, _)
applyReplacers(rs, line) ==
    IF rs = <<>> THEN line
    ELSE applyReplacers(Tail(rs), Replace(line, Head(rs)[1], Head(rs)[2]))

\* The loop body without the line terminator.
emitNoNewline(rs, line) ==
    IF isDirective(line) THEN "" ELSE SprintNoNewline(applyReplacers(rs, line))

\* The body of the scan loop: what one scanned line adds to the buffer.
emit(rs, line) ==
    IF isDirective(line) THEN "" ELSE Sprintln(applyReplacers(rs, line))

\* The orders in which a map with the key set S can be iterated.
Orders(S) ==
    {o \in [1..Cardinality(S) -> S] : \A i, j \in 1..Cardinality(S) : o[i] = o[j] => i = j}

\* The destination of the write.
Dest == IF output = "" THEN paths[1] ELSE output

----------------------------------------------------------------------------
(* The steps of run.                                                       *)

\* log.Fatal: the process ends with the failure why.
Fatal(why) == pc' = "exit" /\ status' = why

\* run returns: the process ends with status zero.
Finish == pc' = "exit" /\ status' = "ok"

\* run goes on to its next call.
Goto(next) == pc' = next /\ status' = status

\* run: k := strings.Split(keys, ","); loadKeyValues(k); log.Fatal on error.
LoadKeyValues ==
    /\ pc = "loadKeyValues"
    /\ LET r == loadKeyValues(Split(keyNames, ","))
       IN  IF r.err
           THEN Fatal("MissingEnvironmentVariable") /\ keyValues' = keyValues
           ELSE Goto("isFile") /\ keyValues' = r.kv
    /\ steps' = Append(steps, "loadKeyValues")
    /\ UNCHANGED <<flags, fs, replacers, buffer, fileOpen, lines, template,
                   fsAtStart, written, run, prev>>

\* run: if len(inputPaths) == 1 && isFile(inputPaths[0]) {...} else Fatal.
CheckInput ==
    /\ pc = "isFile"
    /\ IF Len(paths) = 1
       THEN CASE isFile(paths[1]) = "fatal" -> Fatal("StatError")
              [] isFile(paths[1]) = "no" -> Fatal("UnsupportedInput")
              [] OTHER -> Goto("writeHeader")
       ELSE Fatal("UnsupportedInput")
    /\ steps' = Append(steps, "isFile")
    /\ UNCHANGED <<flags, fs, keyValues, replacers, buffer, fileOpen, lines,
                   template, fsAtStart, written, run, prev>>

\* run: var buffer bytes.Buffer; writeHeader(&buffer).  Writing to a
\* bytes.Buffer returns no error, so ew.err stays nil.
WriteHeader ==
    /\ pc = "writeHeader"
    /\ buffer' = writeHeader(keyNames, output)
    /\ Goto("openTemplateFile")
    /\ steps' = Append(steps, "writeHeader")
    /\ UNCHANGED <<flags, fs, keyValues, replacers, fileOpen, lines, template,
                   fsAtStart, written, run, prev>>

\* substituteValues: openTemplateFile(path), log.Fatal on error, defer Close.
OpenTemplateFile ==
    /\ pc = "openTemplateFile"
    /\ LET name == paths[1] \o ".safekeeper"
       IN  IF name \in DOMAIN fs /\ fs[name].kind = "file"
           THEN /\ Goto("setupReplacers")
                /\ fileOpen' = TRUE
                /\ template' = fs[name].data
                /\ lines' = ScanLines(fs[name].data)
           ELSE /\ Fatal("TemplateNotFound")
                /\ UNCHANGED <<fileOpen, template, lines>>
    /\ steps' = Append(steps, "openTemplateFile")
    /\ UNCHANGED <<flags, fs, keyValues, replacers, buffer, fsAtStart,
                   written, run, prev>>

\* setupReplacers: one replacer per map entry, in the map's iteration order,
\* which Go leaves unspecified.
SetupReplacers ==
    /\ pc = "setupReplacers"
    /\ \E o \in Orders(DOMAIN keyValues) :
          replacers' = [i \in 1..Len(o) |-> <<"ENV_" \o o[i], keyValues[o[i]]>>]
    /\ Goto("scan")
    /\ steps' = Append(steps, "setupReplacers")
    /\ UNCHANGED <<flags, fs, keyValues, buffer, fileOpen, lines, template,
                   fsAtStart, written, run, prev>>

\* substituteValues: one iteration of for scanner.Scan() {...}.
ScanLine ==
    /\ pc = "scan"
    /\ lines # <<>>
    /\ buffer' = buffer \o emit(replacers, Head(lines))
    /\ lines' = Tail(lines)
    /\ Goto("scan")
    /\ steps' = Append(steps, "scan")
    /\ UNCHANGED <<flags, fs, keyValues, replacers, fileOpen, template,
                   fsAtStart, written, run, prev>>

\* substituteValues: the scan ended at end of file; return buffer.Bytes(),
\* and the deferred file.Close() runs.
ScanEnd ==
    /\ pc = "scan"
    /\ lines = <<>>
    /\ fileOpen' = FALSE
    /\ Goto("WriteFile")
    /\ steps' = Append(steps, "Close")
    /\ UNCHANGED <<flags, fs, keyValues, replacers, buffer, lines, template,
                   fsAtStart, written, run, prev>>

\* A read failure handled by log.Fatal inside substituteValues, where the
\* deferred Close does not run.
ScanFailNoClose ==
    /\ pc = "scan"
    /\ Fatal("ReadFailure")
    /\ steps' = Append(steps, "Err")
    /\ UNCHANGED <<flags, fs, keyValues, replacers, buffer, fileOpen, lines,
                   template, fsAtStart, written, run, prev>>

\* A read failure after which run still writes what the buffer holds.
ScanFailWrites ==
    /\ pc = "scan"
    /\ fileOpen' = FALSE
    /\ fs' = [fs EXCEPT ![Dest] = File(buffer)]
    /\ Fatal("ReadFailure")
    /\ steps' = Append(steps, "Err")
    /\ UNCHANGED <<flags, keyValues, replacers, buffer, lines, template,
                   fsAtStart, written, run, prev>>

\* substituteValues: a read fails (or a line is too long): scanner.Scan()
\* is false and scanner.Err() is not nil; return nil, err runs the deferred
\* file.Close(), and run dies with log.Fatal(err).
ScanFail ==
    /\ pc = "scan"
    /\ fileOpen' = FALSE
    /\ Fatal("ReadFailure")
    /\ steps' = Append(steps, "Err")
    /\ UNCHANGED <<flags, fs, keyValues, replacers, buffer, lines, template,
                   fsAtStart, written, run, prev>>

\* run: ioutil.WriteFile(out, src, 0644) succeeds: the destination's content
\* is replaced by src.
WriteFile ==
    /\ pc = "WriteFile"
    /\ written' = buffer
    /\ fs' = [fs EXCEPT ![Dest] = File(buffer)]
    /\ Finish
    /\ steps' = Append(steps, "WriteFile")
    /\ UNCHANGED <<flags, keyValues, replacers, buffer, fileOpen, lines,
                   template, fsAtStart, run, prev>>

\* run: ioutil.WriteFile fails.  It opens with O_TRUNC and then writes, so
\* the destination is untouched (the open failed), empty, or holds a part.
WriteFileFail ==
    /\ pc = "WriteFile"
    /\ written' = buffer
    /\ \E d \in {fs[Dest], File(""), File(SubSeq(buffer, 1, Len(buffer) \div 2))} :
          fs' = [fs EXCEPT ![Dest] = d]
    /\ Fatal("WriteFailure")
    /\ steps' = Append(steps, "WriteFile")
    /\ UNCHANGED <<flags, keyValues, replacers, buffer, fileOpen, lines,
                   template, fsAtStart, run, prev>>

\* The tool is run again with the same flags and environment, on the file
\* system the previous run left.
Rerun ==
    /\ pc = "exit"
    /\ run < MaxRuns
    /\ run' = run + 1
    /\ prev' = [ok |-> status = "ok", template |-> template, data |-> written]
    /\ pc' = "loadKeyValues"
    /\ status' = "running"
    /\ keyValues' = NoKeyValues
    /\ replacers' = <<>>
    /\ buffer' = ""
    /\ fileOpen' = FALSE
    /\ lines' = <<>>
    /\ template' = ""
    /\ steps' = <<>>
    /\ fsAtStart' = fs
    /\ written' = ""
    /\ UNCHANGED <<flags, fs>>

Next ==
    \/ LoadKeyValues
    \/ CheckInput
    \/ WriteHeader
    \/ OpenTemplateFile
    \/ SetupReplacers
    \/ ScanLine
    \/ ScanEnd
    \/ ScanFail
    \/ WriteFile
    \/ WriteFileFail
    \/ Rerun

Spec == Init /\ [][Next]_vars

----------------------------------------------------------------------------
(* Vocabulary of the properties.                                           *)

\* The key list of the run.
Keys == Split(keyNames, ",")

KeySet == {Keys[i] : i \in 1..Len(Keys)}

\* The placeholder token of a key.
Token(k) == "ENV_" \o k

\* The characters of a text.
Chars(s) == {SubSeq(s, i, i) : i \in 1..Len(s)}

\* Every supplied key has a non-empty value.
AllResolved == \A k \in KeySet : Getenv(k) # ""

\* The positional paths are one path naming a file that is no directory.
SingleFile == Len(paths) = 1 /\ fsAtStart[paths[1]].kind = "file"

\* The run has made the call.
Called(step) == \E i \in 1..Len(steps) : steps[i] = step

\* The newline-terminated lines of a text (a last unterminated piece too).
RECURSIVE OutLines(_)
OutLines(s) ==
    LET i == Index(s, "\n")
    IN  IF s = "" THEN <<>>
        ELSE IF i = 0 THEN <<s>>
        ELSE <<SubSeq(s, 1, i - 1)>> \o OutLines(From(s, i + 1))

\* The line holds both the directive marker and the tool's name.
HasBothMarkers(line) == Contains(line, "go:generate") /\ Contains(line, "safekeeper")

NoMarkers(line) == ~HasBothMarkers(line)

\* The directive line of the header, for the run's flags.
DirectiveLine ==
    "//go:generate safekeeper --keys=" \o keyNames
       \o (IF output = "" THEN "" ELSE " --output=" \o output) \o " $GOFILE"

\* The two header lines as text.
HeaderText == Warning \o "\n" \o DirectiveLine \o "\n"

\* The template lines of this run that are no directive lines.
SourceLines == SelectSeq(ScanLines(template), NoMarkers)

\* A line after every replacer of the run was applied to it once, in the
\* run's replacer order.
Substituted(line) == applyReplacers(replacers, line)

\* The substituted lines, each followed by a newline, as one text.
RECURSIVE Joined(_)
Joined(ls) ==
    IF ls = <<>> THEN "" ELSE Substituted(Head(ls)) \o "\n" \o Joined(Tail(ls))

\* What the run wrote after the header.
Body == From(written, Len(HeaderText) + 1)

----------------------------------------------------------------------------
(* C1 *)

C1Pre ==
    /\ pc = "exit"
    /\ AllResolved
    /\ SingleFile
    /\ fsAtStart[paths[1] \o ".safekeeper"].kind = "file"
    /\ status \notin {"ReadFailure", "WriteFailure"}

\* No resolved value shares a character with a placeholder token, and
\* neither flag text holds a placeholder token.
CleanForTokens ==
    /\ \A k \in KeySet :
          Chars(Getenv(k)) \cap UNION {Chars(Token(j)) : j \in KeySet} = {}
    /\ \A k \in KeySet : ~Contains(keyNames, Token(k)) /\ ~Contains(output, Token(k))

\* C1 as stated: whenever every key resolves (one existing input file, a
\* readable template, a write that does not fail), the run succeeds and what
\* it wrote holds no ENV_<key> of a supplied key, whatever the values are.
C1_NoPlaceholderLeft ==
    C1Pre => /\ status = "ok"
             /\ \A k \in KeySet : ~Contains(written, Token(k))

\* C1 amended: the same, for resolved values that share no character with a
\* placeholder token and flag texts that hold no placeholder token.
C1_NoPlaceholderLeftCleanValues ==
    (C1Pre /\ CleanForTokens)
       => /\ status = "ok"
          /\ \A k \in KeySet : ~Contains(written, Token(k))

C1_Witness ==
    /\ C1Pre /\ CleanForTokens
    /\ status = "ok"
    /\ Len(Keys) = 2
    /\ \A k \in KeySet : Contains(template, Token(k))

----------------------------------------------------------------------------
(* C2 *)

\* C2 as stated: a run that follows a successful run on the same template,
\* environment and flags writes exactly the bytes the run before it wrote.
C2_RerunIdentical ==
    (run > 1 /\ prev.ok /\ status = "ok" /\ prev.template = template)
       => written = prev.data

----------------------------------------------------------------------------
(* C3 *)

\* No resolved value shares a character with the two marker words.
CleanForMarkers ==
    \A k \in KeySet :
       Chars(Getenv(k)) \cap (Chars("go:generate") \cup Chars("safekeeper")) = {}

OnlyHeaderDirective ==
    LET L == OutLines(written)
    IN  \A i \in 1..Len(L) : HasBothMarkers(L[i]) <=> i = 2

\* C3 as stated: in what a successful run wrote, the header's directive
\* line (the second line) is the only line holding both "go:generate" and
\* "safekeeper", for any template and any resolved values.
C3_OnlyHeaderDirective == status = "ok" => OnlyHeaderDirective

\* C3 amended: the same, for resolved values that share no character with
\* "go:generate" or "safekeeper".
C3_OnlyHeaderDirectiveCleanValues ==
    (status = "ok" /\ CleanForMarkers) => OnlyHeaderDirective

C3_Witness ==
    /\ status = "ok" /\ CleanForMarkers
    /\ \E i \in 1..Len(ScanLines(template)) : HasBothMarkers(ScanLines(template)[i])
    /\ Len(SourceLines) > 0

----------------------------------------------------------------------------
(* C4 *)

\* C4 as stated: what a successful run wrote starts with three header
\* lines: the warning, the directive with --keys and (if set) --output, and
\* a separate source-reference line; the body starts at the fourth line.
C4_ThreeHeaderLines ==
    status = "ok" =>
       LET L == OutLines(written)
       IN  /\ Len(L) >= 3
           /\ L[1] = Warning
           /\ Contains(L[2], "//go:generate safekeeper --keys=" \o keyNames)
           /\ ~Contains(L[2], "$GOFILE")
           /\ Contains(L[3], "$GOFILE")
           /\ SubSeq(L, 4, Len(L)) = OutLines(Joined(SourceLines))

\* C4 amended: it starts with two header lines: the warning, then the
\* directive with --keys, (if set) --output and the source reference
\* $GOFILE on that same line; the body starts at the third line.
C4_TwoHeaderLines ==
    status = "ok" =>
       LET L == OutLines(written)
       IN  /\ Len(L) >= 2
           /\ L[1] = Warning
           /\ L[2] = DirectiveLine
           /\ (output = "" => ~Contains(L[2], "--output"))
           /\ SubSeq(L, 3, Len(L)) = OutLines(Joined(SourceLines))
           /\ written = HeaderText \o Joined(SourceLines)

C4_Witness ==
    /\ status = "ok"
    /\ output # ""
    /\ Len(OutLines(written)) > 2
    /\ OutLines(written)[3] = Substituted(SourceLines[1])

----------------------------------------------------------------------------
(* C5 *)

AnyMissing == \E k \in KeySet : Getenv(k) = ""

\* C5: when a supplied key has an empty or unset value, the run ends with
\* the missing-environment-variable failure right after loadKeyValues, with
\* the template never opened and no file written, wherever the key stands
\* in the list and whatever the paths are.
C5_MissingEnvAborts ==
    AnyMissing =>
       /\ steps \in {<<>>, <<"loadKeyValues">>}
       /\ pc = "exit" => status = "MissingEnvironmentVariable"
       /\ fs = fsAtStart
       /\ ~fileOpen
       /\ template = ""

C5_Witness ==
    /\ AnyMissing
    /\ status = "MissingEnvironmentVariable"
    /\ Len(Keys) = 2 /\ Getenv(Keys[1]) # "" /\ Getenv(Keys[2]) = ""
    /\ SingleFile
    /\ fs["f.safekeeper"].kind = "file"

----------------------------------------------------------------------------
(* C6 *)

\* The write is the last call of a run and follows every other call, the
\* complete scan and the Close included.
WriteIsLast ==
    \A i \in 1..Len(steps) :
       steps[i] = "WriteFile" =>
          /\ i = Len(steps)
          /\ pc = "exit"
          /\ i >= 7
          /\ SubSeq(steps, 1, 5) = <<"loadKeyValues", "isFile", "writeHeader",
                                     "openTemplateFile", "setupReplacers">>
          /\ \A j \in 6..(i - 2) : steps[j] = "scan"
          /\ i - 7 = Len(ScanLines(template))
          /\ steps[i - 1] = "Close"

UntouchedUnlessWritten == ~Called("WriteFile") => fs = fsAtStart

\* C6 as stated: the write happens at most once and last, after everything
\* else succeeded, and every file holds its prior content, or (the
\* destination) the full header-plus-body content.
C6_FullOrPrior ==
    /\ WriteIsLast
    /\ UntouchedUnlessWritten
    /\ \A p \in Paths :
          \/ fs[p] = fsAtStart[p]
          \/ Called("WriteFile") /\ p = Dest /\ fs[p] = File(buffer)

\* C6 amended: the same, except that after a failed write the destination
\* may also be left empty or holding a leading part of the content.
C6_FullOrPriorUnlessWriteFails ==
    /\ WriteIsLast
    /\ UntouchedUnlessWritten
    /\ \A p \in Paths :
          \/ fs[p] = fsAtStart[p]
          \/ Called("WriteFile") /\ p = Dest /\ fs[p] = File(buffer)
          \/ /\ status = "WriteFailure" /\ p = Dest
             /\ fs[p].kind = "file"
             /\ fs[p].data = SubSeq(buffer, 1, Len(fs[p].data))

C6_Witness ==
    /\ status = "ReadFailure"
    /\ Len(buffer) > Len(HeaderText)
    /\ lines # <<>>
    /\ fs = fsAtStart

----------------------------------------------------------------------------
(* C7 *)

----------------------------------------------------------------------------
(* C8 *)

\* C8: once the template was opened, it is closed before the output is
\* written and before the process ends, on every exit path.
C8_TemplateClosed ==
    /\ pc \in {"WriteFile", "exit"} => ~fileOpen
    /\ fs # fsAtStart => ~fileOpen
    /\ fileOpen => Called("openTemplateFile")

C8_Witness ==
    /\ Called("openTemplateFile")
    /\ status = "ReadFailure"
    /\ lines # <<>>

----------------------------------------------------------------------------
(* C9 *)

NoLineBreakInValues == \A k \in KeySet : ~Contains(Getenv(k), "\n")

LineByLine ==
    LET L == OutLines(Body)
    IN  /\ Len(L) = Len(SourceLines)
        /\ \A i \in 1..Len(L) : L[i] = Substituted(SourceLines[i])

\* C9 as stated: the body of a successful run is, line by line and in
\* order, the template's lines without those holding both markers, each with
\* its placeholders replaced and a newline after it: as many lines as the
\* template has non-directive lines.
C9_BodyLineByLine ==
    status = "ok" => Body = Joined(SourceLines) /\ LineByLine

\* C9 amended: the body is the substituted non-directive template lines in
\* order, each followed by a newline; it has as many lines as the template
\* has non-directive lines when no resolved value holds a line break.
C9_BodyLineByLineNoBreaks ==
    status = "ok" =>
       /\ Body = Joined(SourceLines)
       /\ NoLineBreakInValues => LineByLine

C9_Witness ==
    /\ status = "ok"
    /\ NoLineBreakInValues
    /\ Len(SourceLines) < Len(ScanLines(template))
    /\ \E i \in 1..Len(SourceLines) : Substituted(SourceLines[i]) # SourceLines[i]

----------------------------------------------------------------------------
(* C10 *)

\* C10: with every key resolved and one path given, a path that does not
\* exist ends the run in the input check, the template never opened and
\* nothing written, even if the template file exists and --output is set;
\* the template-not-found failure happens only when the input path exists.
C10_InputMustExist ==
    /\ (AllResolved /\ Len(paths) = 1 /\ fsAtStart[paths[1]].kind = "none") =>
          /\ steps \in {<<>>, <<"loadKeyValues">>, <<"loadKeyValues", "isFile">>}
          /\ pc = "exit" => status = "StatError"
          /\ ~fileOpen
          /\ fs = fsAtStart
    /\ status = "TemplateNotFound" => SingleFile

C10_Witness ==
    /\ AllResolved
    /\ status = "StatError"
    /\ fs["f.safekeeper"].kind = "file"
    /\ output = "o"

====
